---- MODULE Spec2Model ----
(***************************************************************************)
(* mp42srt: conversion of a time-stamped word stream into SubRip cues.     *)
(*                                                                         *)
(* Model of generate_srt_file (src/srt_generator.py) and format_timestamp  *)
(* (src/utils.py).  The inline copy of both in src/main.py is the same     *)
(* algorithm; where the two differ (the stored word text) it is noted.     *)
(*                                                                         *)
(* Text is modelled as a sequence of one-character strings.  A time is the *)
(* value of `seconds * 1000.0` (milliseconds) counted in quarters of a     *)
(* millisecond, so that the fractions .25, .5 and .75 that round() decides *)
(* on are representable and exact.                                         *)
(***************************************************************************)
EXTENDS Integers, Sequences, FiniteSets, TLC

\* ---------------------------------------------------------------- bounds
MaxResults == 2
MaxWords == 3
MaxTie == 40

\* ------------------------------------------------------------- resolution
TicksPerMs == 4
Ms(n) == n * TicksPerMs
Sec(n) == Ms(n * 1000)

\* --------------------------------------------------------- text primitives
DigitChars == <<"0", "1", "2", "3", "4", "5", "6", "7", "8", "9">>

\* Python str(int) of a non-negative integer
RECURSIVE str(_)
str(n) ==
    IF n < 10 THEN <<DigitChars[n + 1]>>
    ELSE Append(str(n \div 10), DigitChars[(n % 10) + 1])

Zeros(k) == [i \in 1..k |-> "0"]

\* Python format spec 0<w>d: zero-padded to at least w digits, never truncated
ZeroPad(n, w) ==
    LET s == str(n)
    IN  IF Len(s) >= w THEN s ELSE Zeros(w - Len(s)) \o s

RECURSIVE lstrip(_)
lstrip(s) == IF s # <<>> /\ Head(s) = " " THEN lstrip(Tail(s)) ELSE s

RECURSIVE rstrip(_)
rstrip(s) ==
    IF s # <<>> /\ s[Len(s)] = " " THEN rstrip(SubSeq(s, 1, Len(s) - 1)) ELSE s

\* str.strip()
strip(s) == lstrip(rstrip(s))

\* " ".join(parts)
RECURSIVE join(_)
join(parts) ==
    IF parts = <<>> THEN <<>>
    ELSE IF Len(parts) = 1 THEN parts[1]
    ELSE parts[1] \o <<" ">> \o join(Tail(parts))

\* len(temp_line.split("\n"))
RECURSIVE CountChar(_, _)
CountChar(s, c) ==
    IF s = <<>> THEN 0
    ELSE (IF Head(s) = c THEN 1 ELSE 0) + CountChar(Tail(s), c)

SplitLinesLen(s) == CountChar(s, "\n") + 1

\* word.endswith((".", "?", "!"))
endswith_terminal(s) == s # <<>> /\ s[Len(s)] \in {".", "?", "!"}

\* -------------------------------------------------------- format_timestamp
AssertionError == <<"AssertionError">>

\* round(): nearest integer, a tie goes to the even neighbour
round_half_up(x) == (x + (TicksPerMs \div 2)) \div TicksPerMs

round(x) ==
    LET q == x \div TicksPerMs
        r == x % TicksPerMs
    IN  IF 2 * r < TicksPerMs THEN q
        ELSE IF 2 * r > TicksPerMs THEN q + 1
        ELSE IF q % 2 = 0 THEN q ELSE q + 1

hours_mod24(milliseconds) == (milliseconds \div 3600000) % 24

hours_of(milliseconds) == milliseconds \div 3600000

minutes_of(milliseconds) == (milliseconds % 3600000) \div 60000

seconds_of(milliseconds) == ((milliseconds % 3600000) % 60000) \div 1000

millis_of(milliseconds) == ((milliseconds % 3600000) % 60000) % 1000

render_fields(milliseconds) ==
    ZeroPad(hours_of(milliseconds), 2) \o <<":">>
        \o ZeroPad(minutes_of(milliseconds), 2) \o <<":">>
        \o ZeroPad(seconds_of(milliseconds), 2) \o <<",">>
        \o ZeroPad(millis_of(milliseconds), 3)

\* the assertion stripped: a negative value is rendered by its magnitude
format_timestamp_unchecked(x) == render_fields(round(IF x >= 0 THEN x ELSE 0 - x))

format_timestamp(x) ==
    IF ~(x >= 0) THEN AssertionError ELSE render_fields(round(x))

\* ------------------------------------------------------------------ input
\* word texts as the recognizer hands them over (not yet stripped)
TextPlain == <<"H", "i">>
TextPunct == <<"o", "k", ".", " ">>
TextTwoLines == <<"u", "\n", "v">>
TextLongTwoLines == [i \in 1..43 |-> IF i = 22 THEN "\n" ELSE "x"]

Word(t, s, e) == [word |-> t, start_time |-> s, end_time |-> e]

\* (start, end) in seconds: (0, 1) and (2, 3.5) fill the duration cap exactly,
\* (3, 4) passes it, (0, 4) is one word longer than the cap, (3, 2) ends
\* before it starts, (-1, 0) starts before time zero
Words ==
    {Word(t, Sec(0), Sec(1)) :
        t \in {TextPlain, TextPunct, TextTwoLines, TextLongTwoLines}}
        \cup {Word(t, Sec(2), Ms(3500)) : t \in {TextPlain, TextPunct}}
        \cup {Word(TextPlain, Sec(3), Sec(4)),
              Word(TextPlain, Sec(0), Sec(4)),
              Word(TextPlain, Sec(3), Sec(2)),
              Word(TextPlain, 0 - Sec(1), Sec(0))}

SeqsUpTo(S, n) == UNION {[1..k -> S] : k \in 0..n}

RECURSIVE SumLen(_)
SumLen(ss) == IF ss = <<>> THEN 0 ELSE Len(Head(ss)) + SumLen(Tail(ss))

\* -------------------------------------------------------------- constants
max_chars_per_line == 42
max_line_duration == Ms(3500)
max_lines_per_subtitle == 2

\* ------------------------------------------------------------------ state
VARIABLES
    results,                      \* response.results iterated so far
    pc,                           \* position in generate_srt_file
    wi,                           \* position of word_info in words
    current_subtitle_words,
    current_subtitle_start_time,
    srt_content,
    subtitle_index,
    cues,                         \* history: one record per block appended to srt_content
    file,                         \* content of output_path, or NotOpened
    fmt_in,                       \* format_timestamp: argument
    fmt_out                       \* format_timestamp: return value, or NotCalled

segvars == <<results, pc, wi, current_subtitle_words, current_subtitle_start_time,
             srt_content, subtitle_index, cues, file>>
fmtvars == <<fmt_in, fmt_out>>
vars == <<results, pc, wi, current_subtitle_words, current_subtitle_start_time,
          srt_content, subtitle_index, cues, file, fmt_in, fmt_out>>

NotOpened == <<"NotOpened">>
NotCalled == <<"NotCalled">>

words == results[Len(results)]

SegInit ==
    /\ results = <<>>
    /\ pc = "results"
    /\ wi = 0
    /\ current_subtitle_words = <<>>
    /\ current_subtitle_start_time = 0
    /\ srt_content = <<>>
    /\ subtitle_index = 1
    /\ cues = <<>>
    /\ file = NotOpened

\* ------------------------------------------------------- the word loop body
WordTexts(ws) == [i \in 1..Len(ws) |-> ws[i].word]

temp_line(acc, word_info) == join(Append(WordTexts(acc), strip(word_info.word)))

duration_exceeded(start, word_info) ==
    (word_info.end_time - start) > max_line_duration

should_split_no_duration(acc, start, word_info) ==
    \/ SplitLinesLen(temp_line(acc, word_info)) > max_lines_per_subtitle
    \/ /\ Len(temp_line(acc, word_info)) > max_chars_per_line
       /\ SplitLinesLen(temp_line(acc, word_info)) > 1
    \/ endswith_terminal(strip(word_info.word))

should_split(acc, start, word_info) ==
    \/ SplitLinesLen(temp_line(acc, word_info)) > max_lines_per_subtitle
    \/ /\ Len(temp_line(acc, word_info)) > max_chars_per_line
       /\ SplitLinesLen(temp_line(acc, word_info)) > 1
    \/ duration_exceeded(start, word_info)
    \/ endswith_terminal(strip(word_info.word))

\* the start time the loop body works with: captured when the block is empty
first_word_start_as_end(acc, start, word_info) ==
    IF acc = <<>> THEN word_info.end_time ELSE start

first_word_start(acc, start, word_info) ==
    IF acc = <<>> THEN word_info.start_time ELSE start

block_end_time(acc) == acc[Len(acc)].end_time

transcript_line(acc) == strip(join(WordTexts(acc)))

timing_line(start, end) ==
    format_timestamp(start) \o <<" ", "-", "-", ">", " ">> \o format_timestamp(end)

raises(start, end) ==
    format_timestamp(start) = AssertionError \/ format_timestamp(end) = AssertionError

\* the four lines of one block
block_lines(index, acc, start) ==
    <<str(index), timing_line(start, block_end_time(acc)), transcript_line(acc), <<>>>>

Cue(index, acc, start) ==
    [index |-> index, start |-> start, end |-> block_end_time(acc),
     words |-> acc, result |-> Len(results)]

\* ---------------------------------------------------------------- actions
\* for result in response.results: a result without words is skipped
SkipEmptyResult_counting ==
    /\ pc = "results"
    /\ Len(results) < MaxResults
    /\ results' = Append(results, <<>>)
    /\ subtitle_index' = subtitle_index + 1
    /\ UNCHANGED <<pc, wi, current_subtitle_words, current_subtitle_start_time,
                   srt_content, cues, file, fmt_in, fmt_out>>

SkipEmptyResult ==
    /\ pc = "results"
    /\ Len(results) < MaxResults
    /\ results' = Append(results, <<>>)
    /\ UNCHANGED <<pc, wi, current_subtitle_words, current_subtitle_start_time,
                   srt_content, subtitle_index, cues, file, fmt_in, fmt_out>>

\* a result with words: the block under construction starts empty
BeginResult ==
    /\ pc = "results"
    /\ Len(results) < MaxResults
    /\ \E r \in SeqsUpTo(Words, MaxWords - SumLen(results)) :
          /\ r # <<>>
          /\ results' = Append(results, r)
    /\ current_subtitle_words' = <<>>
    /\ current_subtitle_start_time' = 0
    /\ wi' = 1
    /\ pc' = "words"
    /\ UNCHANGED <<srt_content, subtitle_index, cues, file, fmt_in, fmt_out>>

restart_block_empty(word_info) == <<>>

restart_block(word_info) == <<word_info>>

\* one iteration of the word loop, else branch: the word joins the block
AppendWord ==
    /\ pc = "words"
    /\ wi <= Len(words)
    /\ LET word_info == words[wi]
           start == first_word_start(current_subtitle_words,
                                     current_subtitle_start_time, word_info)
       IN  /\ ~(should_split(current_subtitle_words, start, word_info)
                  /\ current_subtitle_words # <<>>)
           /\ current_subtitle_words' = Append(current_subtitle_words, word_info)
           /\ current_subtitle_start_time' = start
    /\ wi' = wi + 1
    /\ UNCHANGED <<results, pc, srt_content, subtitle_index, cues, file, fmt_in, fmt_out>>

\* one iteration of the word loop, split branch: the block is appended to
\* srt_content, the index advances, the word starts the next block
CloseBlock ==
    /\ pc = "words"
    /\ wi <= Len(words)
    /\ LET word_info == words[wi]
           start == first_word_start(current_subtitle_words,
                                     current_subtitle_start_time, word_info)
       IN  /\ should_split(current_subtitle_words, start, word_info)
           /\ current_subtitle_words # <<>>
           /\ ~raises(start, block_end_time(current_subtitle_words))
           /\ srt_content' = srt_content
                  \o block_lines(subtitle_index, current_subtitle_words, start)
           /\ cues' = Append(cues, Cue(subtitle_index, current_subtitle_words, start))
           /\ subtitle_index' = subtitle_index + 1
           /\ current_subtitle_words' = restart_block(word_info)
           /\ current_subtitle_start_time' = word_info.start_time
    /\ wi' = wi + 1
    /\ UNCHANGED <<results, pc, file, fmt_in, fmt_out>>

\* split branch, format_timestamp raises: the index line is already appended,
\* the except clause re-raises and the function is left
CloseBlockRaises ==
    /\ pc = "words"
    /\ wi <= Len(words)
    /\ LET word_info == words[wi]
           start == first_word_start(current_subtitle_words,
                                     current_subtitle_start_time, word_info)
       IN  /\ should_split(current_subtitle_words, start, word_info)
           /\ current_subtitle_words # <<>>
           /\ raises(start, block_end_time(current_subtitle_words))
           /\ srt_content' = Append(srt_content, str(subtitle_index))
           /\ current_subtitle_start_time' = start
    /\ pc' = "failed"
    /\ UNCHANGED <<results, wi, current_subtitle_words, subtitle_index, cues, file,
                   fmt_in, fmt_out>>

\* after the last word: the remaining block is appended; the index is left alone
FinishResult ==
    /\ pc = "words"
    /\ wi > Len(words)
    /\ IF current_subtitle_words # <<>>
       THEN /\ ~raises(current_subtitle_start_time,
                       block_end_time(current_subtitle_words))
            /\ srt_content' = srt_content
                   \o block_lines(subtitle_index, current_subtitle_words,
                                  current_subtitle_start_time)
            /\ cues' = Append(cues, Cue(subtitle_index, current_subtitle_words,
                                        current_subtitle_start_time))
       ELSE UNCHANGED <<srt_content, cues>>
    /\ pc' = "results"
    /\ UNCHANGED <<results, wi, current_subtitle_words, current_subtitle_start_time,
                   subtitle_index, file, fmt_in, fmt_out>>

FinishResultRaises ==
    /\ pc = "words"
    /\ wi > Len(words)
    /\ current_subtitle_words # <<>>
    /\ raises(current_subtitle_start_time, block_end_time(current_subtitle_words))
    /\ srt_content' = Append(srt_content, str(subtitle_index))
    /\ pc' = "failed"
    /\ UNCHANGED <<results, wi, current_subtitle_words, current_subtitle_start_time,
                   subtitle_index, cues, file, fmt_in, fmt_out>>

\* "\n".join(srt_content)
RECURSIVE join_lines(_)
join_lines(lines) ==
    IF lines = <<>> THEN <<>>
    ELSE IF Len(lines) = 1 THEN lines[1]
    ELSE lines[1] \o <<"\n">> \o join_lines(Tail(lines))

\* the results are exhausted: the file is opened and written
WriteFile ==
    /\ pc = "results"
    /\ file' = join_lines(srt_content)
    /\ pc' = "done"
    /\ UNCHANGED <<results, wi, current_subtitle_words, current_subtitle_start_time,
                   srt_content, subtitle_index, cues, fmt_in, fmt_out>>

Init == SegInit /\ fmt_in = 0 /\ fmt_out = NotCalled

Next ==
    \/ SkipEmptyResult
    \/ BeginResult
    \/ AppendWord
    \/ CloseBlock
    \/ CloseBlockRaises
    \/ FinishResult
    \/ FinishResultRaises
    \/ WriteFile

Spec == Init /\ [][Next]_vars

\* ------------------------------------------- format_timestamp on its own
FieldEdges == {1000, 60000, 3600000, 86400000, 360000000}

FmtInputs ==
    (0 - 2 .. Ms(MaxTie))
        \cup {Ms(k) + d : k \in FieldEdges, d \in 0 - 3 .. 3}

FmtInit == SegInit /\ fmt_in \in FmtInputs /\ fmt_out = NotCalled

Format ==
    /\ fmt_out = NotCalled
    /\ fmt_out' = format_timestamp(fmt_in)
    /\ UNCHANGED <<fmt_in, results, pc, wi, current_subtitle_words,
                   current_subtitle_start_time, srt_content, subtitle_index, cues, file>>

FmtNext == Format

SpecFmt == FmtInit /\ [][FmtNext]_vars

\* ================================================================ claims
RECURSIVE FlatWords(_)
FlatWords(cs) == IF cs = <<>> THEN <<>> ELSE Head(cs).words \o FlatWords(Tail(cs))

RECURSIVE FlatResults(_)
FlatResults(rs) == IF rs = <<>> THEN <<>> ELSE Head(rs) \o FlatResults(Tail(rs))

InWordLoop == pc \in {"words", "failed"}

\* the words the loops have consumed so far, in input order
Consumed ==
    IF InWordLoop
    THEN FlatResults(SubSeq(results, 1, Len(results) - 1))
             \o SubSeq(words, 1, wi - 1)
    ELSE FlatResults(results)

CuesOf(r) == SelectSeq(cues, LAMBDA c : c.result = r)

Completed(r) == r \in 1..Len(results) /\ (r < Len(results) \/ pc \in {"results", "done"})

Punctuated(w) == endswith_terminal(strip(w.word))

WellTimed(w) == 0 <= w.start_time /\ w.start_time <= w.end_time

StartsNonDecreasing(r) ==
    \A i \in 1..(Len(r) - 1) : r[i].start_time <= r[i + 1].start_time

TimesNonDecreasing(r) ==
    \A i \in 1..(Len(r) - 1) :
        /\ r[i].start_time <= r[i + 1].start_time
        /\ r[i].end_time <= r[i + 1].end_time

\* ---------------------------------------------------------------- C1
\* C1: the indices of the emitted cues, read in document order, are exactly
\* 1, 2, ..., n: the i-th block of srt_content opens with the line str(i),
\* also across the boundary between two results.
C1_IndicesSequential ==
    \A i \in 1..Len(cues) :
        /\ cues[i].index = i
        /\ srt_content[4 * i - 3] = str(i)

\* ---------------------------------------------------------------- C2
OtherSplitCause(acc, start, word_info) ==
    \/ SplitLinesLen(temp_line(acc, word_info)) > max_lines_per_subtitle
    \/ /\ Len(temp_line(acc, word_info)) > max_chars_per_line
       /\ SplitLinesLen(temp_line(acc, word_info)) > 1
    \/ duration_exceeded(start, word_info)

\* C2: a word whose trimmed text ends in '.', '?' or '!' is the last word of
\* the cue that contains it, and it stays in the cue of the words accumulated
\* before it: it opens a cue of its own result only when the length or
\* duration limits forced the split.
C2_PunctuatedWordEndsCue ==
    /\ \A i \in 1..Len(cues) : \A k \in 1..Len(cues[i].words) :
          Punctuated(cues[i].words[k]) => k = Len(cues[i].words)
    /\ \A i \in 2..Len(cues) :
          (cues[i].result = cues[i - 1].result /\ Punctuated(cues[i].words[1]))
              => OtherSplitCause(cues[i - 1].words, cues[i - 1].start, cues[i].words[1])

\* ---------------------------------------------------------------- C3
C3_Covers(c) ==
    LET r == results[c.result]
    IN  /\ \A i \in 1..Len(r) : ~Punctuated(r[i]) /\ r[i].start_time <= r[i].end_time
        /\ TimesNonDecreasing(r)

\* C3 as stated: in a result without sentence-terminal punctuation and with
\* non-decreasing times, every cue, a single-word cue included, lasts at most
\* 3.5 seconds from the start of its first word to the end of its last.
C3_EveryCueWithinDuration ==
    \A i \in 1..Len(cues) :
        C3_Covers(cues[i]) => cues[i].end - cues[i].start <= max_line_duration

\* C3 amended: under the same assumptions every cue of two or more words
\* lasts at most 3.5 seconds; a single-word cue lasts exactly as long as its
\* word, whatever that is.
C3_MultiWordCueWithinDuration ==
    \A i \in 1..Len(cues) :
        C3_Covers(cues[i]) =>
            IF Len(cues[i].words) >= 2
            THEN cues[i].end - cues[i].start <= max_line_duration
            ELSE /\ cues[i].start = cues[i].words[1].start_time
                 /\ cues[i].end = cues[i].words[1].end_time

\* a two-word cue that fills the cap exactly, closed because the third word
\* of the result would pass it
C3_Witness ==
    \E i \in 1..(Len(cues) - 1) :
        /\ C3_Covers(cues[i])
        /\ Len(cues[i].words) >= 2
        /\ cues[i].end - cues[i].start = max_line_duration
        /\ cues[i + 1].result = cues[i].result
        /\ duration_exceeded(cues[i].start, cues[i + 1].words[1])

\* ---------------------------------------------------------------- C4
\* C4: processing a result with zero words emits no cue, appends nothing to
\* srt_content and leaves the index counter alone; the first cue of a
\* document always carries index 1, also after leading empty results.
C4_EmptyResultSkipped ==
    /\ [][(results' = Append(results, <<>>))
            => (cues' = cues /\ srt_content' = srt_content
                  /\ subtitle_index' = subtitle_index)]_vars
    /\ [](cues # <<>> => (cues[1].index = 1 /\ srt_content[1] = str(1)))

\* a cue emitted after a leading empty result
C4_Witness ==
    /\ Len(results) = 2
    /\ results[1] = <<>>
    /\ Len(cues) = 1
    /\ cues[1].result = 2

\* ---------------------------------------------------------------- C5
NoSplitFires(r) ==
    \A i \in 2..Len(r) : ~should_split(SubSeq(r, 1, i - 1), r[1].start_time, r[i])

\* C5: the cues partition the word stream.  The words of all cues followed by
\* the block under construction are the words consumed so far, in order; when
\* the file is written the cues hold every input word.  The cues of a
\* completed result, in document order, concatenate to that result (so each
\* is a contiguous run of one result), no cue is empty, and a result in which
\* no split fires yields exactly one cue with all its words.
C5_CuesPartitionWords ==
    /\ FlatWords(cues) \o (IF InWordLoop THEN current_subtitle_words ELSE <<>>) = Consumed
    /\ pc = "done" => FlatWords(cues) = FlatResults(results)
    /\ \A i \in 1..Len(cues) :
          /\ cues[i].words # <<>>
          /\ cues[i].result \in 1..Len(results)
          /\ i > 1 => cues[i - 1].result <= cues[i].result
          /\ srt_content[4 * i - 1] = transcript_line(cues[i].words)
    /\ \A r \in 1..Len(results) :
          Completed(r) =>
              /\ FlatWords(CuesOf(r)) = results[r]
              /\ (results[r] # <<>> /\ NoSplitFires(results[r]))
                    => (Len(CuesOf(r)) = 1 /\ CuesOf(r)[1].words = results[r])

\* two results written out, the first split into two cues
C5_Witness ==
    /\ pc = "done"
    /\ Len(results) = 2
    /\ Len(results[1]) = 2
    /\ Len(results[2]) = 1
    /\ Len(cues) = 3

\* ---------------------------------------------------------------- C6
\* C6: the output file is opened only after every result was segmented and
\* every timestamp formatted: once it is written the function is done, every
\* block in srt_content is complete, no cue carries a negative time and the
\* cues hold every input word; when generation failed the file was never
\* opened, whatever cues were produced before the failure.
C6_NoPartialWrite ==
    /\ file # NotOpened =>
          /\ pc = "done"
          /\ Len(srt_content) = 4 * Len(cues)
          /\ file = join_lines(srt_content)
          /\ FlatWords(cues) = FlatResults(results)
    /\ \A i \in 1..Len(cues) : cues[i].start >= 0 /\ cues[i].end >= 0
    /\ pc = "failed" => file = NotOpened

\* a failure after a cue has already been produced
C6_Witness ==
    /\ pc = "failed"
    /\ Len(cues) >= 1
    /\ file = NotOpened
    /\ Len(srt_content) = 4 * Len(cues) + 1

\* ---------------------------------------------------------------- C7
\* C7: a word with 0 <= end < start aborts generation: no cue contains such a
\* word and no written file stems from an input that holds one.
C7_InvertedWordAborts ==
    /\ \A i \in 1..Len(cues) : \A k \in 1..Len(cues[i].words) :
          ~(0 <= cues[i].words[k].end_time
              /\ cues[i].words[k].end_time < cues[i].words[k].start_time)
    /\ file # NotOpened =>
          \A k \in 1..Len(FlatResults(results)) :
              ~(0 <= FlatResults(results)[k].end_time
                  /\ FlatResults(results)[k].end_time < FlatResults(results)[k].start_time)

\* ---------------------------------------------------------------- C8
\* C8 as stated: when each word of the result has 0 <= start <= end, every
\* cue has end >= start, nothing assumed about the order of the times of
\* different words.
C8_CueEndNotBeforeStart ==
    \A i \in 1..Len(cues) :
        (\A k \in 1..Len(results[cues[i].result]) : WellTimed(results[cues[i].result][k]))
            => cues[i].end >= cues[i].start

\* C8 amended: when each word of the result has 0 <= start <= end and the
\* start times do not decrease along the result, every cue has end >= start.
C8_CueEndNotBeforeStartOrdered ==
    \A i \in 1..Len(cues) :
        (/\ \A k \in 1..Len(results[cues[i].result]) : WellTimed(results[cues[i].result][k])
         /\ StartsNonDecreasing(results[cues[i].result]))
            => cues[i].end >= cues[i].start

\* a cue of several words with different times, within the assumptions
C8_Witness ==
    \E i \in 1..Len(cues) :
        /\ \A k \in 1..Len(results[cues[i].result]) : WellTimed(results[cues[i].result][k])
        /\ StartsNonDecreasing(results[cues[i].result])
        /\ Len(cues[i].words) >= 2
        /\ cues[i].words[1].start_time < cues[i].words[2].start_time
        /\ cues[i].end > cues[i].start

\* ------------------------------------------------------------ C9, C10
IsDigits(s) == \A i \in 1..Len(s) : \E d \in 0..9 : DigitChars[d + 1] = s[i]

DigitVal(c) == CHOOSE d \in 0..9 : DigitChars[d + 1] = c

RECURSIVE ParseInt(_)
ParseInt(s) ==
    IF s = <<>> THEN 0 ELSE 10 * ParseInt(SubSeq(s, 1, Len(s) - 1)) + DigitVal(s[Len(s)])

\* HH...:MM:SS,mmm read back from the text
WellFormed(t) ==
    /\ Len(t) >= 12
    /\ t[Len(t) - 3] = ","
    /\ t[Len(t) - 6] = ":"
    /\ t[Len(t) - 9] = ":"
    /\ IsDigits(SubSeq(t, 1, Len(t) - 10))
    /\ IsDigits(SubSeq(t, Len(t) - 8, Len(t) - 7))
    /\ IsDigits(SubSeq(t, Len(t) - 5, Len(t) - 4))
    /\ IsDigits(SubSeq(t, Len(t) - 2, Len(t)))

HH(t) == ParseInt(SubSeq(t, 1, Len(t) - 10))
MM(t) == ParseInt(SubSeq(t, Len(t) - 8, Len(t) - 7))
SS(t) == ParseInt(SubSeq(t, Len(t) - 5, Len(t) - 4))
Mmm(t) == ParseInt(SubSeq(t, Len(t) - 2, Len(t)))
TotalMs(t) == HH(t) * 3600000 + MM(t) * 60000 + SS(t) * 1000 + Mmm(t)

Formatted == fmt_out # NotCalled

\* C9: for a whole number ms >= 0 of milliseconds the text is HH:MM:SS,mmm
\* with MM and SS in 0..59, mmm in 0..999 and
\* HH*3600000 + MM*60000 + SS*1000 + mmm = ms; HH is not wrapped at 24, and
\* ms = 0 gives 00:00:00,000.
C9_FieldsDecomposeMs ==
    (Formatted /\ fmt_in >= 0 /\ fmt_in % TicksPerMs = 0) =>
        /\ WellFormed(fmt_out)
        /\ MM(fmt_out) \in 0..59
        /\ SS(fmt_out) \in 0..59
        /\ Mmm(fmt_out) \in 0..999
        /\ TotalMs(fmt_out) = fmt_in \div TicksPerMs
        /\ fmt_in >= Ms(86400000) => HH(fmt_out) >= 24
        /\ fmt_in = 0 =>
              fmt_out = <<"0", "0", ":", "0", "0", ":", "0", "0", ",", "0", "0", "0">>

\* one hundred hours: an hours field of three digits
C9_Witness ==
    /\ Formatted
    /\ fmt_in = Ms(360000000)
    /\ HH(fmt_out) = 100

IsTie == fmt_in >= 0 /\ 2 * (fmt_in % TicksPerMs) = TicksPerMs

\* C10 as stated: a millisecond value exactly halfway between k and k + 1 is
\* formatted as k + 1, for even k as well as odd k.
C10_TiesAwayFromZero ==
    (Formatted /\ IsTie) =>
        (WellFormed(fmt_out) /\ TotalMs(fmt_out) = (fmt_in \div TicksPerMs) + 1)

\* C10 amended: the millisecond value is rounded to the nearest whole
\* millisecond, and a value exactly halfway between k and k + 1 goes to the
\* even one of the two: k + 1 for odd k, k for even k.
C10_TiesToEven ==
    (Formatted /\ fmt_in >= 0) =>
        /\ WellFormed(fmt_out)
        /\ IF IsTie
           THEN /\ TotalMs(fmt_out) \in {fmt_in \div TicksPerMs, (fmt_in \div TicksPerMs) + 1}
                /\ TotalMs(fmt_out) % 2 = 0
           ELSE /\ 2 * (TicksPerMs * TotalMs(fmt_out) - fmt_in) < TicksPerMs
                /\ 2 * (fmt_in - TicksPerMs * TotalMs(fmt_out)) < TicksPerMs

\* an even k: 2.5 ms is formatted as 2 ms
C10_Witness ==
    /\ Formatted
    /\ fmt_in = Ms(2) + 2
    /\ TotalMs(fmt_out) = 2

====
